---------------------------- MODULE Spec2Model ----------------------------
(***************************************************************************)
(* alertmanager-webhook-servicenow: the webhook handler of src/main.go.    *)
(*                                                                         *)
(* A delivery is decoded into a template.Data value, manageIncidents looks *)
(* the alert group up in ServiceNow by its group key, and creates or       *)
(* updates an incident.  Go strings are TLA+ strings.  A multi-line text   *)
(* (description, comments) is held as the sequence of its lines: the text  *)
(* is the lines joined by "\n", and WriteString("\n" + s) adds the line s. *)
(* A Go map (template.KV) is held as the sequence of its pairs in the      *)
(* order `range` happens to visit them, which Go leaves unspecified: every *)
(* enumeration of the same pairs is the same map.                          *)
(***************************************************************************)
EXTENDS Integers, Sequences, FiniteSets, TLC

VARIABLES
    tickets,    \* ServiceNow's incident table, in the order the table API lists it
    pc,         \* per delivery: "idle", "write" (between the two gateway calls), "done"
    data,       \* per delivery: the decoded template.Data
    incidents,  \* per delivery: the slice GetIncidents returned
    calls,      \* per delivery: the gateway calls issued so far, with their outcomes
    warned,     \* per delivery: log.Warnf of line 170 was written
    response,   \* per delivery: the JSONResponse sent
    mapPhase,   \* field mapper harness: "off", "input" or "done"
    mapIn,      \* field mapper harness: the template.Data handed to the functions
    mapOut      \* field mapper harness: what getGroupKey and dataToIncidentParam returned

vars == <<tickets, pc, data, incidents, calls, warned, response, mapPhase, mapIn, mapOut>>

reconcileVars == <<tickets, pc, data, incidents, calls, warned, response>>

mapVars == <<mapPhase, mapIn, mapOut>>

--------------------------------------------------------------------------
(* Bounds *)

\* deliveries (webhook calls) in one behaviour
NumReqs == 3

\* pairs in the group labels of a field mapper input
MaxLabels == 3

\* alerts in a field mapper input
MaxAlerts == 2

--------------------------------------------------------------------------
(* Strings and their order *)

nil == "nil"

\* model.AlertNameLabel, the name SortedPairs puts first
AlertNameLabel == "alertname"

\* The label and annotation names of the model, in Go's string order (bytewise):
\* "account" < "alertname" < "description" < "env" < "job" < "summary".
NameOrder == <<"account", "alertname", "description", "env", "job", "summary">>

Rank(n) == CHOOSE i \in 1..Len(NameOrder) : NameOrder[i] = n

\* a < b on Go strings
Less(a, b) == Rank(a) < Rank(b)

RECURSIVE Insert(_, _)
Insert(k, s) ==
    IF s = <<>> THEN <<k>>
    ELSE IF Less(k, Head(s)) THEN <<k>> \o s
    ELSE <<Head(s)>> \o Insert(k, Tail(s))

\* sort.Strings
RECURSIVE SortStrings(_)
SortStrings(s) == IF s = <<>> THEN <<>> ELSE Insert(Head(s), SortStrings(Tail(s)))

--------------------------------------------------------------------------
(* template.KV and template.Pairs (github.com/prometheus/alertmanager/template, *)
(* imported at main.go:10)                                                       *)

\* kv[k]
Get(kv, k) == kv[CHOOSE i \in 1..Len(kv) : kv[i].Name = k].Value

\* The loop `for k := range kv` of SortedPairs: alertname is put in front,
\* every other key is appended.
RECURSIVE rangeKeys(_, _)
rangeKeys(kv, keys) ==
    IF kv = <<>> THEN keys
    ELSE rangeKeys(Tail(kv),
                   IF Head(kv).Name = AlertNameLabel
                   THEN <<Head(kv).Name>> \o keys
                   ELSE Append(keys, Head(kv).Name))

sortStart(kv) == IF \E i \in 1..Len(kv) : kv[i].Name = AlertNameLabel THEN 1 ELSE 0

\* keys with keys[sortStart:] sorted
sortedKeys(kv) ==
    LET keys == rangeKeys(kv, <<>>)
        s    == sortStart(kv)
    IN  SubSeq(keys, 1, s) \o SortStrings(SubSeq(keys, s + 1, Len(keys)))

\* A plausible slip: the pairs are returned in the order `range` gave them.
SortedPairsUnsorted(kv) == kv

\* KV.SortedPairs: alertname first when present, the other pairs by name.
SortedPairs(kv) ==
    LET keys == sortedKeys(kv)
    IN  [i \in 1..Len(keys) |-> [Name |-> keys[i], Value |-> Get(kv, keys[i])]]

\* fmt's %v of a []Pair: "[{n1 v1} {n2 v2}]", and "[]" for no pair
RECURSIVE fmtPairElems(_)
fmtPairElems(ps) ==
    IF ps = <<>> THEN ""
    ELSE "{" \o Head(ps).Name \o " " \o Head(ps).Value \o "}"
         \o (IF Tail(ps) = <<>> THEN "" ELSE " " \o fmtPairElems(Tail(ps)))

fmtPairs(ps) == "[" \o fmtPairElems(ps) \o "]"

--------------------------------------------------------------------------
(* Configuration (loaded once by loadConfig, read-only afterwards) *)

config ==
    [ServiceNow      |-> [UserName |-> "webhook", IncidentGroupKeyField |-> "u_group_key"],
     DefaultIncident |-> [AssignmentGroup |-> "ops", Impact |-> "2", Urgency |-> "2"]]

--------------------------------------------------------------------------
(* getGroupKey and dataToIncidentParam *)

getGroupKey(d) == fmtPairs(SortedPairs(d.GroupLabels))

\* lines 188-193: the loop over the sorted group labels writing groupKeyBuilder
RECURSIVE writeGroupKey(_, _)
writeGroupKey(ps, b) ==
    IF ps = <<>> THEN b
    ELSE writeGroupKey(Tail(ps),
                       (IF Len(b) > 0 THEN b \o ", " ELSE b)
                       \o Head(ps).Name \o ": " \o Head(ps).Value)

\* lines 206-211: one "\n- name: value" line per pair
pairLines(ps) == [i \in 1..Len(ps) |-> "- " \o ps[i].Name \o ": " \o ps[i].Value]

\* lines 204-211: alertBuilder, as its lines
alertBlock(alert) ==
    <<"[" \o alert.Status \o "] " \o alert.StartsAt>>
    \o pairLines(SortedPairs(alert.Labels))
    \o pairLines(SortedPairs(alert.Annotations))

\* A plausible slip: the alerts are walked last to first.
RECURSIVE writeCommentsReversed(_, _)
writeCommentsReversed(alerts, b) ==
    IF alerts = <<>> THEN b
    ELSE writeCommentsReversed(SubSeq(alerts, 1, Len(alerts) - 1),
                               b \o <<"">> \o alertBlock(alerts[Len(alerts)]))

\* lines 203-213: the loop over data.Alerts; "\n\n%s" adds an empty line and the block
RECURSIVE writeComments(_, _)
writeComments(alerts, b) ==
    IF alerts = <<>> THEN b
    ELSE writeComments(Tail(alerts), b \o <<"">> \o alertBlock(Head(alerts)))

\* A plausible slip: GroupKey is filled from groupKeyBuilder, the rendering the
\* descriptions use, instead of getGroupKey.
dataToIncidentParamBuilderKey(d) ==
    LET groupKeyBuilder == writeGroupKey(SortedPairs(d.GroupLabels), "")
    IN  [AssignmentGroup  |-> config.DefaultIncident.AssignmentGroup,
         CallerID         |-> config.ServiceNow.UserName,
         Comments         |-> writeComments(d.Alerts, <<"Alerts list:">>),
         Description      |-> <<"Group key: " \o groupKeyBuilder,
                                "AlertManager receiver: " \o d.Receiver,
                                "AlertManager source URL: " \o d.ExternalURL>>,
         Impact           |-> config.DefaultIncident.Impact,
         ShortDescription |-> "[" \o d.Status \o "] " \o groupKeyBuilder,
         GroupKey         |-> groupKeyBuilder,
         Urgency          |-> config.DefaultIncident.Urgency]

dataToIncidentParam(d) ==
    LET groupKeyBuilder == writeGroupKey(SortedPairs(d.GroupLabels), "")
    IN  [AssignmentGroup  |-> config.DefaultIncident.AssignmentGroup,
         CallerID         |-> config.ServiceNow.UserName,
         Comments         |-> writeComments(d.Alerts, <<"Alerts list:">>),
         Description      |-> <<"Group key: " \o groupKeyBuilder,
                                "AlertManager receiver: " \o d.Receiver,
                                "AlertManager source URL: " \o d.ExternalURL>>,
         Impact           |-> config.DefaultIncident.Impact,
         ShortDescription |-> "[" \o d.Status \o "] " \o groupKeyBuilder,
         GroupKey         |-> getGroupKey(d),
         Urgency          |-> config.DefaultIncident.Urgency]

--------------------------------------------------------------------------
(* The deliveries the model sends.  N1 and N2 carry the same group labels, *)
(* visited in the two possible orders; N3 has no group label.              *)

alertA ==
    [Status |-> "firing", StartsAt |-> "t1",
     Labels |-> <<[Name |-> "job", Value |-> "node"],
                  [Name |-> "alertname", Value |-> "HighCPU"]>>,
     Annotations |-> <<[Name |-> "summary", Value |-> "cpu"]>>]

alertB ==
    [Status |-> "resolved", StartsAt |-> "t2",
     Labels |-> <<[Name |-> "alertname", Value |-> "HighCPU"],
                  [Name |-> "account", Value |-> "ops"]>>,
     Annotations |-> <<>>]

N1 ==
    [Status |-> "firing", Receiver |-> "servicenow", ExternalURL |-> "http://am",
     GroupLabels |-> <<[Name |-> "alertname", Value |-> "HighCPU"],
                       [Name |-> "job", Value |-> "node"]>>,
     Alerts |-> <<alertA>>]

N2 ==
    [Status |-> "resolved", Receiver |-> "servicenow", ExternalURL |-> "http://am",
     GroupLabels |-> <<[Name |-> "job", Value |-> "node"],
                       [Name |-> "alertname", Value |-> "HighCPU"]>>,
     Alerts |-> <<alertB, alertA>>]

N3 ==
    [Status |-> "firing", Receiver |-> "servicenow", ExternalURL |-> "http://am",
     GroupLabels |-> <<>>,
     Alerts |-> <<>>]

Notifications == {N1, N2, N3}

noData == [Status |-> "", Receiver |-> "", ExternalURL |-> "", GroupLabels |-> <<>>, Alerts |-> <<>>]

--------------------------------------------------------------------------
(* The ServiceNow gateway (the ServiceNow interface behind the global      *)
(* serviceNow; its implementation is not part of main.go).  Each call is   *)
(* one step of the tracker and either succeeds or fails with an error.     *)

QueryErr == "query failed"

CreateErr == "create failed"

UpdateErr == "update failed"

DecodeErr == "unexpected end of JSON input"

Reqs == 1..NumReqs

\* the incidents whose group key field equals the filter value, as the table lists them
Matching(key) ==
    LET hit == SelectSeq(tickets, LAMBDA t : t.groupKey = key)
    IN  [i \in 1..Len(hit) |-> [sysID |-> hit[i].sysID]]

\* GetIncidents: the matching incidents, or no incident and an error
GetIncidents(key, ok) ==
    IF ok THEN [incidents |-> Matching(key), err |-> nil]
    ELSE [incidents |-> <<>>, err |-> QueryErr]

\* CreateIncident: a new incident with the fields given, or an error and no incident
CreateIncident(incident, ok) ==
    IF ok
    THEN [tickets |-> Append(tickets, [sysID    |-> Len(tickets) + 1,
                                       groupKey |-> incident.GroupKey,
                                       updates  |-> 0]),
          err |-> nil]
    ELSE [tickets |-> tickets, err |-> CreateErr]

\* UpdateIncident: the incident sysID gets the fields given, or an error and no change
UpdateIncident(incident, sysID, ok) ==
    IF ok
    THEN [tickets |-> [i \in 1..Len(tickets) |->
                          IF tickets[i].sysID = sysID
                          THEN [sysID    |-> sysID,
                                groupKey |-> incident.GroupKey,
                                updates  |-> tickets[i].updates + 1]
                          ELSE tickets[i]],
          err |-> nil]
    ELSE [tickets |-> tickets, err |-> UpdateErr]

--------------------------------------------------------------------------
(* webhook and manageIncidents *)

\* A plausible slip: every delivery is answered 200.
sendResponseAlwaysOK(err) == [Status |-> 200, Message |-> "Success"]

\* webhook, lines 65-72: the response for manageIncidents' result
sendResponse(err) ==
    IF err # nil
    THEN [Status |-> 500, Message |-> err]
    ELSE [Status |-> 200, Message |-> "Success"]

\* A lock by group key would make the write see the table as it is now.
seenIncidentsFresh(r) == Matching(getGroupKey(data[r]))

\* the local `incidents` read at lines 162-172: what the lookup returned
seenIncidents(r) == incidents[r]

\* A plausible slip: the last incident found is taken.
existingIncidentLast(incs) == incs[Len(incs)]

\* line 172: existingIncident := incidents[0]
existingIncident(incs) == incs[1]

\* A plausible slip: a failed write is tried again.
afterWriteRetry(err) == IF err # nil THEN "write" ELSE "done"

\* lines 165-180: manageIncidents returns after its one write call, whatever its error
afterWrite(err) == "done"

Init ==
    /\ tickets = <<>>
    /\ pc = [r \in Reqs |-> "idle"]
    /\ data = [r \in Reqs |-> noData]
    /\ incidents = [r \in Reqs |-> <<>>]
    /\ calls = [r \in Reqs |-> <<>>]
    /\ warned = [r \in Reqs |-> FALSE]
    /\ response = [r \in Reqs |-> [Status |-> 0, Message |-> ""]]
    /\ mapPhase = "off"
    /\ mapIn = noData
    /\ mapOut = <<>>

\* Deliveries are numbered in the order they reach the handler.
NextToArrive(r) == pc[r] = "idle" /\ \A q \in Reqs : q < r => pc[q] # "idle"

\* webhook, lines 56-61: the body does not decode
Malformed(r) ==
    /\ NextToArrive(r)
    /\ pc' = [pc EXCEPT ![r] = "done"]
    /\ response' = [response EXCEPT ![r] = [Status |-> 400, Message |-> DecodeErr]]
    /\ UNCHANGED <<tickets, data, incidents, calls, warned, mapVars>>

\* webhook, lines 56 and 63, and manageIncidents, lines 155-160: the body decodes
\* to d and the lookup by group key is made
Lookup(r, d, ok) ==
    /\ NextToArrive(r)
    /\ LET groupKey == getGroupKey(d)
           got      == GetIncidents(groupKey, ok)
       IN  /\ incidents' = [incidents EXCEPT ![r] = got.incidents]
           /\ calls' = [calls EXCEPT ![r] =
                           <<[op |-> "GetIncidents", groupKey |-> groupKey,
                              sysID |-> 0, err |-> got.err]>>]
    /\ data' = [data EXCEPT ![r] = d]
    /\ pc' = [pc EXCEPT ![r] = "write"]
    /\ UNCHANGED <<tickets, warned, response, mapVars>>

\* manageIncidents, lines 162-180, and webhook, lines 65-72: the create or the
\* update, and the response
Write(r, ok) ==
    /\ pc[r] = "write"
    /\ LET incident == dataToIncidentParam(data[r])
       IN  IF Len(seenIncidents(r)) = 0
           THEN LET made == CreateIncident(incident, ok)
                IN  /\ tickets' = made.tickets
                    /\ calls' = [calls EXCEPT ![r] =
                                    Append(@, [op |-> "CreateIncident",
                                               groupKey |-> incident.GroupKey,
                                               sysID |-> 0, err |-> made.err])]
                    /\ warned' = warned
                    /\ response' = [response EXCEPT ![r] = sendResponse(made.err)]
                    /\ pc' = [pc EXCEPT ![r] = afterWrite(made.err)]
           ELSE LET sysID == existingIncident(seenIncidents(r)).sysID
                    upd   == UpdateIncident(incident, sysID, ok)
                IN  /\ tickets' = upd.tickets
                    /\ calls' = [calls EXCEPT ![r] =
                                    Append(@, [op |-> "UpdateIncident",
                                               groupKey |-> incident.GroupKey,
                                               sysID |-> sysID, err |-> upd.err])]
                    /\ warned' = [warned EXCEPT ![r] = Len(seenIncidents(r)) > 1]
                    /\ response' = [response EXCEPT ![r] = sendResponse(upd.err)]
                    /\ pc' = [pc EXCEPT ![r] = afterWrite(upd.err)]
    /\ UNCHANGED <<data, incidents, mapVars>>

\* Deliveries handled concurrently (net/http serves each request in its own goroutine).
Next ==
    \E r \in Reqs :
        \/ Malformed(r)
        \/ \E d \in Notifications, ok \in BOOLEAN : Lookup(r, d, ok)
        \/ \E ok \in BOOLEAN : Write(r, ok)

Spec == Init /\ [][Next]_vars

\* no delivery is between its lookup and its response
NoneInFlight == \A q \in Reqs : pc[q] # "write"

\* Deliveries one after the other: each is answered before the next arrives.
SeqNext ==
    \E r \in Reqs :
        \/ NoneInFlight /\ Malformed(r)
        \/ \E d \in Notifications, ok \in BOOLEAN : NoneInFlight /\ Lookup(r, d, ok)
        \/ \E ok \in BOOLEAN : Write(r, ok)

SeqSpec == Init /\ [][SeqNext]_vars

--------------------------------------------------------------------------
(* getGroupKey and dataToIncidentParam on their own: every template.Data   *)
(* within the bounds is handed to both.                                    *)

LabelPairs ==
    {[Name |-> "account", Value |-> "ops"], [Name |-> "alertname", Value |-> "HighCPU"],
     [Name |-> "env", Value |-> "prod"], [Name |-> "job", Value |-> "node"]}

\* the maps of at most n pairs, each in every order `range` can visit it
KVs(n) ==
    {kv \in UNION {[1..k -> LabelPairs] : k \in 0..n} :
        \A i, j \in 1..Len(kv) : i # j => kv[i].Name # kv[j].Name}

alertC ==
    [Status |-> "firing", StartsAt |-> "t3",
     Labels |-> <<[Name |-> "job", Value |-> "node"],
                  [Name |-> "account", Value |-> "ops"]>>,
     Annotations |-> <<[Name |-> "summary", Value |-> "cpu"],
                       [Name |-> "description", Value |-> "load"]>>]

AlertEntries == {alertA, alertB, alertC}

MapInputs ==
    [Status : {"firing", "resolved"}, Receiver : {"servicenow"}, ExternalURL : {"http://am"},
     GroupLabels : KVs(MaxLabels),
     Alerts : UNION {[1..k -> AlertEntries] : k \in 0..MaxAlerts}]

MapInit ==
    /\ tickets = <<>>
    /\ pc = [r \in Reqs |-> "idle"]
    /\ data = [r \in Reqs |-> noData]
    /\ incidents = [r \in Reqs |-> <<>>]
    /\ calls = [r \in Reqs |-> <<>>]
    /\ warned = [r \in Reqs |-> FALSE]
    /\ response = [r \in Reqs |-> [Status |-> 0, Message |-> ""]]
    /\ mapPhase = "input"
    /\ mapIn \in MapInputs
    /\ mapOut = <<>>

MapApply ==
    /\ mapPhase = "input"
    /\ mapOut' = [groupKey |-> getGroupKey(mapIn), incident |-> dataToIncidentParam(mapIn)]
    /\ mapPhase' = "done"
    /\ UNCHANGED <<mapIn, reconcileVars>>

MapNext == MapApply

MapSpec == MapInit /\ [][MapNext]_vars

--------------------------------------------------------------------------
(* Properties *)

\* the delivery decoded and manageIncidents has returned
Reconciled(r) == pc[r] = "done" /\ response[r].Status # 400

LookupFailed(r) == calls[r] # <<>> /\ calls[r][1].err # nil

LookupOK(r) == calls[r] # <<>> /\ calls[r][1].err = nil

IsWrite(c) == c.op \in {"CreateIncident", "UpdateIncident"}

WritesOf(r) == SelectSeq(calls[r], IsWrite)

TicketsWithKey(key) == {i \in 1..Len(tickets) : tickets[i].groupKey = key}

\* the enumerations of one map
PermsOf(kv) == {[i \in 1..Len(kv) |-> kv[p[i]]] : p \in Permutations(1..Len(kv))}

\* the pairs by name ascending
ByName(kv) ==
    CHOOSE ps \in PermsOf(kv) :
        \A i, j \in 1..Len(ps) : i < j => Less(ps[i].Name, ps[j].Name)

\* the pairs with alertname first when present, the others by name ascending
AlertnameThenByName(kv) ==
    CHOOSE ps \in PermsOf(kv) :
        \A i, j \in 1..Len(ps) :
            i < j => \/ ps[i].Name = AlertNameLabel
                     \/ /\ ps[j].Name # AlertNameLabel
                        /\ Less(ps[i].Name, ps[j].Name)

\* "n1: v1, n2: v2", and "" for no pair
RECURSIVE NameValueJoin(_)
NameValueJoin(ps) ==
    IF ps = <<>> THEN ""
    ELSE Head(ps).Name \o ": " \o Head(ps).Value
         \o (IF Tail(ps) = <<>> THEN "" ELSE ", " \o NameValueJoin(Tail(ps)))

DashLines(ps) == [i \in 1..Len(ps) |-> "- " \o ps[i].Name \o ": " \o ps[i].Value]

RECURSIVE Flatten(_)
Flatten(ss) == IF ss = <<>> THEN <<>> ELSE Head(ss) \o Flatten(Tail(ss))

\* the header, then per alert in the order given an empty line and its block,
\* the block's labels and annotations each in the order Ord gives
CommentsOf(alerts, Ord(_)) ==
    <<"Alerts list:">>
    \o Flatten([i \in 1..Len(alerts) |->
                   <<"", "[" \o alerts[i].Status \o "] " \o alerts[i].StartsAt>>
                   \o DashLines(Ord(alerts[i].Labels))
                   \o DashLines(Ord(alerts[i].Annotations))])

\* C1: a delivery whose lookup failed issues no create and no update, and its
\* reconcile result is a failure (its response is not 200).
C1_LookupFailureAborts ==
    \A r \in Reqs :
        LookupFailed(r) =>
            /\ WritesOf(r) = <<>>
            /\ pc[r] = "done" => response[r].Status # 200

\* C2: a delivery whose lookup succeeded with no match has issued exactly one
\* create and no update, and the create carries the group key of the lookup filter.
C2_NoMatchCreatesOnce ==
    \A r \in Reqs :
        (Reconciled(r) /\ LookupOK(r) /\ Len(incidents[r]) = 0) =>
            /\ Len(WritesOf(r)) = 1
            /\ WritesOf(r)[1].op = "CreateIncident"
            /\ WritesOf(r)[1].groupKey = calls[r][1].groupKey

C2_Witness ==
    \E r \in Reqs :
        /\ Reconciled(r) /\ LookupOK(r) /\ Len(incidents[r]) = 0
        /\ data[r].GroupLabels # <<>>
        /\ calls[r][2].op = "CreateIncident" /\ calls[r][2].err = nil

\* C3: a delivery whose lookup returned T1..Tn, n >= 1, has issued exactly one
\* update, addressed to T1's sysID, and no create or other write; with n > 1 it
\* only warns: the result is still that of the update.
C3_MatchUpdatesFirst ==
    \A r \in Reqs :
        (Reconciled(r) /\ Len(incidents[r]) >= 1) =>
            /\ Len(WritesOf(r)) = 1
            /\ WritesOf(r)[1].op = "UpdateIncident"
            /\ WritesOf(r)[1].sysID = incidents[r][1].sysID
            /\ warned[r] = (Len(incidents[r]) > 1)
            /\ WritesOf(r)[1].err = nil => response[r].Status = 200

C3_Witness ==
    \E r \in Reqs :
        /\ Reconciled(r) /\ Len(incidents[r]) = 2
        /\ incidents[r][1].sysID # incidents[r][2].sysID
        /\ calls[r][2].op = "UpdateIncident" /\ calls[r][2].err = nil
        /\ warned[r] /\ response[r].Status = 200

\* C4: the group key is the label pairs sorted by name ascending, each rendered
\* "name: value" and joined by ", " (the rendering that follows the status prefix
\* in shortDescription and "Group key: " in description); "" for no label.
C4_GroupKeyIsNameValueJoin ==
    mapPhase = "done" =>
        /\ mapOut.groupKey = NameValueJoin(ByName(mapIn.GroupLabels))
        /\ mapOut.incident.GroupKey = mapOut.groupKey
        /\ mapOut.incident.ShortDescription = "[" \o mapIn.Status \o "] " \o mapOut.groupKey
        /\ mapOut.incident.Description[1] = "Group key: " \o mapOut.groupKey
        /\ mapIn.GroupLabels = <<>> => mapOut.groupKey = ""

\* C5: with deliveries one after the other, a create is never issued for a group
\* key that already has a ticket (so no group key gets a second ticket).
C5_NoCreateOnceTicketExists ==
    [][\A r \in Reqs :
          (Len(calls[r]) = 1 /\ Len(calls'[r]) = 2 /\ calls'[r][2].op = "CreateIncident")
              => TicketsWithKey(calls'[r][2].groupKey) = {}]_vars

\* C6: nothing orders one delivery's lookup and write against another's: two
\* deliveries of one group key that both looked up no match have both created,
\* and when both creates succeeded two tickets carry that group key.
C6_RaceCreatesTwoTickets ==
    \A r, q \in Reqs :
        (/\ r # q
         /\ Reconciled(r) /\ Reconciled(q)
         /\ LookupOK(r) /\ LookupOK(q)
         /\ Len(incidents[r]) = 0 /\ Len(incidents[q]) = 0
         /\ calls[r][1].groupKey = calls[q][1].groupKey
         /\ response[r].Status = 200 /\ response[q].Status = 200)
        => /\ calls[r][2].op = "CreateIncident" /\ calls[q][2].op = "CreateIncident"
           /\ Cardinality(TicketsWithKey(calls[r][1].groupKey)) >= 2

C6_Witness ==
    \E r, q \in Reqs :
        /\ r # q
        /\ Reconciled(r) /\ Reconciled(q)
        /\ LookupOK(r) /\ LookupOK(q)
        /\ Len(incidents[r]) = 0 /\ Len(incidents[q]) = 0
        /\ calls[r][1].groupKey = calls[q][1].groupKey
        /\ response[r].Status = 200 /\ response[q].Status = 200
        /\ Cardinality(TicketsWithKey(calls[r][1].groupKey)) = 2

\* C7: a decoded delivery is answered 200 "Success" only if its create or update
\* succeeded; if that call failed the answer is 500 with the call's own error as
\* message, and no further gateway call (no rollback) follows it.
C7_SuccessOnlyIfWriteSucceeded ==
    \A r \in Reqs :
        Reconciled(r) =>
            /\ response[r].Status = 200 =>
                   /\ response[r].Message = "Success"
                   /\ WritesOf(r) # <<>>
                   /\ WritesOf(r)[Len(WritesOf(r))].err = nil
            /\ \A i \in 1..Len(calls[r]) :
                   (IsWrite(calls[r][i]) /\ calls[r][i].err # nil) =>
                       /\ response[r] = [Status |-> 500, Message |-> calls[r][i].err]
                       /\ i = Len(calls[r])

C7_Witness ==
    \E r, q \in Reqs :
        /\ Reconciled(r) /\ Len(calls[r]) = 2 /\ calls[r][2].err # nil
        /\ response[r].Status = 500
        /\ Reconciled(q) /\ Len(calls[q]) = 2 /\ calls[q][2].err = nil
        /\ response[q].Status = 200

\* C8: a delivery issues one lookup, then at most one write (a create or an
\* update, never both), then returns: no gateway call is issued a second time,
\* whatever the calls' outcomes.
C8_OneLookupOneWrite ==
    \A r \in Reqs :
        /\ pc[r] = "idle" => calls[r] = <<>>
        /\ pc[r] = "write" => Len(calls[r]) = 1 /\ calls[r][1].op = "GetIncidents"
        /\ Reconciled(r) =>
               /\ Len(calls[r]) = 2
               /\ calls[r][1].op = "GetIncidents"
               /\ IsWrite(calls[r][2])

C8_Witness ==
    \E r, q \in Reqs :
        /\ Reconciled(r) /\ LookupFailed(r) /\ Len(calls[r]) = 2
        /\ Reconciled(q) /\ LookupOK(q) /\ Len(calls[q]) = 2 /\ calls[q][2].err # nil

\* C9: the group key does not depend on the order in which the label pairs are
\* enumerated: every enumeration of the same label set gives the same string.
C9_GroupKeyOrderInvariant ==
    mapPhase = "done" =>
        \A kv \in PermsOf(mapIn.GroupLabels) :
            getGroupKey([mapIn EXCEPT !.GroupLabels = kv]) = mapOut.groupKey

C9_Witness ==
    /\ mapPhase = "done"
    /\ Len(mapIn.GroupLabels) = 3
    /\ Less(mapIn.GroupLabels[3].Name, mapIn.GroupLabels[1].Name)
    /\ Less(mapIn.GroupLabels[2].Name, mapIn.GroupLabels[3].Name)

==========================================================================
